---- MODULE Spec2Model ----
(***************************************************************************)
(* CampusStay: the booking / payment / review / favourite handlers of      *)
(* src/app.py over the tables of src/models.py, with the hosted checkout   *)
(* provider (Stripe) as an external collaborator.                          *)
(*                                                                         *)
(* Money is counted in cents (price_per_month 0.08 is 8).  Tables whose    *)
(* handlers use the row id (accommodation, booking) are sets of rows;      *)
(* review and favorite, whose handlers never read the id, are row counts   *)
(* per (user_id, accommodation_id).  The database is the default SQLite    *)
(* one of src/config.py: a new row gets id max+1 and foreign keys are not  *)
(* enforced by the engine.                                                 *)
(***************************************************************************)
EXTENDS Integers, FiniteSets, Sequences, TLC

\* ---------------------------------------------------------------- bounds
MaxUsers == 2
MaxAccs == 1
MaxBookings == 1
MaxCapacity == 2
MaxInflight == 2
MaxOccupancy == 3

\* ------------------------------------------------------ program constants
ANNUAL_MONTHS == 10
SEMESTER_MONTHS == 5
MIN_CHARGE == 50
NULL == 0
SEED_ADMIN == 1

UserIds == 1..MaxUsers
AccIds == 1..MaxAccs
Pairs == UserIds \X AccIds
\* price_per_month values an admin may submit, in cents: 0.08 and 1000.00
Prices == {8, 100000}
\* request.form.get('duration'): the two offered values, any other string, or
\* no value at all ("" stands for None)
Durations == {"semester", "annual", "weekly", ""}
\* a checkout session of the same provider account that book never created
ForeignSid == MaxBookings + 1
SessionArgs == 0..(MaxBookings + 1)

VARIABLES users, admins, accs, bookings, reviews, favorites, stripe_sessions,
          pending, book_resp, fav_resp

vars == <<users, admins, accs, bookings, reviews, favorites, stripe_sessions,
          pending, book_resp, fav_resp>>

\* the tables and the provider's sessions
db == <<users, admins, accs, bookings, reviews, favorites, stripe_sessions>>

\* what the last book request answered and what its Session.create call gave
\* ("none" when the handler returned before calling the provider)
BookResp(result, stripe) == [result |-> result, stripe |-> stripe]

\* the JSON status of the last toggle_favorite on a pair, and whether the pair
\* was a favourite when that request arrived
FavResp(status, was) == [status |-> status, was |-> was]

\* ---------------------------------------------------------------- helpers
MaxOf(S) == CHOOSE x \in S : \A y \in S : y <= x

\* SQLite rowid allocation for an INTEGER PRIMARY KEY: max(id) + 1
NextId(rows) == IF rows = {} THEN 1 ELSE MaxOf({r.id : r \in rows}) + 1

\* Query.get(id): the set holding the row with that id, or the empty set
Get(rows, id) == {r \in rows : r.id = id}

\* Query.first(): the matching row with the least id
First(rows) == CHOOSE r \in rows : \A q \in rows : r.id <= q.id

\* is_full with > for >=
is_full_strict(acc) == acc.current_occupancy > acc.capacity

\* Accommodation.is_full
is_full(acc) == acc.current_occupancy >= acc.capacity

\* book: months from the submitted duration
months_of(duration) == IF duration = "annual" THEN ANNUAL_MONTHS ELSE SEMESTER_MONTHS

\* book: total_price = price_per_month * months
total_price_of(acc, duration) == acc.price_per_month * months_of(duration)

\* the minimum check against 0.05 instead of 0.50
below_minimum_low(total) == total < 5

\* book: the Stripe minimum check
below_minimum(total) == total < MIN_CHARGE

\* rows of other tables that reference the accommodation
HasDependents(id) ==
    \/ \E b \in bookings : b.accommodation_id = id
    \/ \E u \in UserIds : reviews[<<u, id>>] > 0 \/ favorites[<<u, id>>] > 0

\* ------------------------------------------------------------------- Init
Init ==
    /\ users = {SEED_ADMIN}
    /\ admins = {SEED_ADMIN}
    /\ accs = {}
    /\ bookings = {}
    /\ reviews = [p \in Pairs |-> 0]
    /\ favorites = [p \in Pairs |-> 0]
    /\ stripe_sessions = {[id |-> ForeignSid, payment_status |-> "paid"]}
    /\ pending = [p \in Pairs |-> 0]
    /\ book_resp = BookResp("", "none")
    /\ fav_resp = [p \in Pairs |-> FavResp("", FALSE)]

\* --------------------------------------------------------------- register
register(u) ==
    /\ u \notin users
    /\ u = NextId({[id |-> x] : x \in users})
    /\ users' = users \cup {u}
    /\ UNCHANGED <<admins, accs, bookings, reviews, favorites, stripe_sessions,
                   pending, book_resp, fav_resp>>

\* ------------------------------------------------------------------- book
\* the inner except branch without its db.session.delete(booking)
discard_booking_skip(rows, booking) == rows

\* the compensating delete of book's inner except branch
discard_booking(rows, booking) == rows \ {booking}

\* stripe.checkout.Session.create: the provider hands out an unused session id
new_session_id == CHOOSE i \in 1..(Cardinality(stripe_sessions) + 1) :
    /\ i # ForeignSid
    /\ Get(stripe_sessions, i) = {}
    /\ \A j \in 1..(i - 1) : j = ForeignSid \/ Get(stripe_sessions, j) # {}

book(u, a, duration, stripe_ok) ==
    /\ u \in users
    /\ UNCHANGED <<users, admins, accs, reviews, favorites, pending, fav_resp>>
    /\ LET found == Get(accs, a) IN
       IF found = {} THEN
           \* get_or_404 raises NotFound inside the outer try
           /\ book_resp' = BookResp("booking_error", "none")
           /\ UNCHANGED <<bookings, stripe_sessions>>
       ELSE LET accommodation == First(found)
                total_price == total_price_of(accommodation, duration)
                booking == [id |-> NextId(bookings), user_id |-> u,
                            accommodation_id |-> a, duration |-> duration,
                            months |-> months_of(duration),
                            total_price |-> total_price, status |-> "approved",
                            stripe_session_id |-> NULL]
                added == bookings \cup {booking}
            IN
            IF is_full(accommodation) THEN
                /\ book_resp' = BookResp("fully_booked", "none")
                /\ UNCHANGED <<bookings, stripe_sessions>>
            ELSE IF below_minimum(total_price) THEN
                /\ book_resp' = BookResp("below_minimum", "none")
                /\ UNCHANGED <<bookings, stripe_sessions>>
            ELSE IF duration = "" THEN
                \* duration is NOT NULL: the first commit raises IntegrityError
                /\ book_resp' = BookResp("booking_error", "none")
                /\ UNCHANGED <<bookings, stripe_sessions>>
            ELSE IF stripe_ok THEN
                /\ bookings' = (added \ {booking}) \cup
                       {[booking EXCEPT !.stripe_session_id = new_session_id]}
                /\ stripe_sessions' = stripe_sessions \cup
                       {[id |-> new_session_id, payment_status |-> "unpaid"]}
                /\ book_resp' = BookResp("redirect_checkout", "created")
            ELSE
                /\ bookings' = discard_booking(added, booking)
                /\ stripe_sessions' = stripe_sessions
                /\ book_resp' = BookResp("payment_setup_failed", "error")

\* the customer completes the hosted checkout the redirect led to
customer_pays(sid) ==
    /\ \E s \in stripe_sessions :
          /\ s.id = sid
          /\ s.id # ForeignSid
          /\ s.payment_status = "unpaid"
          /\ stripe_sessions' = (stripe_sessions \ {s}) \cup
                 {[s EXCEPT !.payment_status = "paid"]}
    /\ UNCHANGED <<users, admins, accs, bookings, reviews, favorites, pending,
                   book_resp, fav_resp>>

\* -------------------------------------------------------- payment_success
\* payment_success without the payment_status test
confirmed_paid_any(payment_status) == payment_status \in {"paid", "unpaid"}

\* session.payment_status == 'paid'
confirmed_paid(payment_status) == payment_status = "paid"

\* booking.status = 'paid'
mark_paid(booking) == [booking EXCEPT !.status = "paid"]

\* the increment without the capacity test that closes the listing
occupy_open(acc) == [acc EXCEPT !.current_occupancy = @ + 1]

\* current_occupancy += 1, and is_active = False once capacity is reached
occupy(acc) ==
    LET n == acc.current_occupancy + 1 IN
    [acc EXCEPT !.current_occupancy = n,
                !.is_active = IF n >= acc.capacity THEN FALSE ELSE acc.is_active]

payment_success(sid, read_ok) ==
    /\ UNCHANGED <<users, admins, reviews, favorites, stripe_sessions, pending,
                   book_resp, fav_resp>>
    /\ IF sid = NULL THEN
           UNCHANGED <<bookings, accs>>
       ELSE IF ~read_ok \/ Get(stripe_sessions, sid) = {} THEN
           \* Session.retrieve raises: unknown id or provider failure
           UNCHANGED <<bookings, accs>>
       ELSE LET session == First(Get(stripe_sessions, sid))
                matches == {b \in bookings : b.stripe_session_id = sid}
            IN
            IF confirmed_paid(session.payment_status) /\ matches # {} THEN
                LET booking == First(matches)
                    accommodation == First(Get(accs, booking.accommodation_id))
                IN
                /\ accommodation.current_occupancy < MaxOccupancy
                /\ bookings' = (bookings \ {booking}) \cup {mark_paid(booking)}
                /\ accs' = (accs \ {accommodation}) \cup {occupy(accommodation)}
            ELSE
                UNCHANGED <<bookings, accs>>

\* --------------------------------------------------------- payment_cancel
\* the status test also letting a paid booking through
cancellable_paid(booking) == booking.status \in {"approved", "paid"}

\* if booking.status == 'approved'
cancellable(booking) == booking.status = "approved"

payment_cancel(booking_id) ==
    /\ UNCHANGED <<users, admins, accs, reviews, favorites, stripe_sessions,
                   pending, book_resp, fav_resp>>
    /\ LET found == Get(bookings, booking_id) IN
       IF found = {} THEN
           UNCHANGED bookings
       ELSE LET booking == First(found) IN
            bookings' = IF cancellable(booking)
                        THEN (bookings \ {booking}) \cup
                                 {[booking EXCEPT !.status = "cancelled"]}
                        ELSE bookings

\* ---------------------------------------------------------- submit_review
\* Booking.query.filter_by(user_id, accommodation_id, status='paid').first()
has_paid_booking(u, a) ==
    \E b \in bookings : b.user_id = u /\ b.accommodation_id = a /\ b.status = "paid"

\* Review.query.filter_by(user_id, accommodation_id).first()
has_review(u, a) == reviews[<<u, a>>] > 0

\* submit_review without the paid-booking guard
review_allowed_unpaid(u, a) == ~has_review(u, a)

\* the two guards of submit_review
review_allowed(u, a) == has_paid_booking(u, a) /\ ~has_review(u, a)

\* db.session.add(review); db.session.commit()
insert_review(u, a) == [reviews EXCEPT ![<<u, a>>] = @ + 1]

\* the whole handler, run to completion
submit_review(u, a, form_valid) ==
    /\ u \in users
    /\ UNCHANGED <<users, admins, accs, bookings, favorites, stripe_sessions,
                   pending, book_resp, fav_resp>>
    /\ reviews' = IF review_allowed(u, a) /\ form_valid
                  THEN insert_review(u, a)
                  ELSE reviews

\* -------------------------------------------------------- toggle_favorite
\* Favorite.query.filter_by(user_id, accommodation_id).first()
is_favorite(u, a) == favorites[<<u, a>>] > 0

\* the removal branch without its db.session.delete(favorite)
delete_favorite_skip(u, a) == favorites

\* db.session.delete(favorite): one row of the pair goes
delete_favorite(u, a) == [favorites EXCEPT ![<<u, a>>] = @ - 1]

\* db.session.add(Favorite(...))
add_favorite(u, a) == [favorites EXCEPT ![<<u, a>>] = @ + 1]

toggle_favorite(u, a) ==
    /\ u \in users
    /\ UNCHANGED <<users, admins, accs, bookings, reviews, stripe_sessions,
                   pending, book_resp>>
    /\ IF is_favorite(u, a) THEN
           /\ favorites' = delete_favorite(u, a)
           /\ fav_resp' = [fav_resp EXCEPT ![<<u, a>>] = FavResp("removed", is_favorite(u, a))]
       ELSE
           /\ favorites' = add_favorite(u, a)
           /\ fav_resp' = [fav_resp EXCEPT ![<<u, a>>] = FavResp("added", is_favorite(u, a))]

\* ------------------------------------------------------------------ admin
\* the admin check passing for every logged-in user
is_admin_any(u) == u \in users

\* current_user.is_admin
is_admin(u) == u \in admins

\* AccommodationForm.validate_on_submit for the three numeric fields
AccommodationFormValid(price, capacity, occupancy) ==
    /\ price \in Prices
    /\ capacity \in 1..MaxCapacity
    /\ occupancy \in 0..capacity

admin_new_accommodation(u, price, capacity, occupancy) ==
    /\ u \in users
    /\ UNCHANGED <<users, admins, bookings, reviews, favorites, stripe_sessions,
                   pending, book_resp, fav_resp>>
    /\ IF ~is_admin(u) THEN
           UNCHANGED accs
       ELSE
           /\ AccommodationFormValid(price, capacity, occupancy)
           /\ Cardinality(accs) < MaxAccs
           /\ accs' = accs \cup {[id |-> NextId(accs), price_per_month |-> price,
                                  capacity |-> capacity,
                                  current_occupancy |-> occupancy,
                                  is_active |-> TRUE]}

\* the edit also resetting is_active from the submitted occupancy
update_fields_reopen(acc, price, capacity, occupancy) ==
    [acc EXCEPT !.price_per_month = price, !.capacity = capacity,
                !.current_occupancy = occupancy,
                !.is_active = occupancy < capacity]

\* accommodation.<field> = form.<field>.data; is_active is not among them
update_fields(acc, price, capacity, occupancy) ==
    [acc EXCEPT !.price_per_month = price, !.capacity = capacity,
                !.current_occupancy = occupancy]

admin_edit_accommodation(u, id, price, capacity, occupancy) ==
    /\ u \in users
    /\ UNCHANGED <<users, admins, bookings, reviews, favorites, stripe_sessions,
                   pending, book_resp, fav_resp>>
    /\ IF ~is_admin(u) \/ Get(accs, id) = {} THEN
           \* access denied, or get_or_404 raises
           UNCHANGED accs
       ELSE LET acc == First(Get(accs, id)) IN
           /\ AccommodationFormValid(price, capacity, occupancy)
           /\ accs' = (accs \ {acc}) \cup
                  {update_fields(acc, price, capacity, occupancy)}

admin_delete_accommodation(u, id) ==
    /\ u \in users
    /\ UNCHANGED <<users, admins, bookings, reviews, favorites, stripe_sessions,
                   pending, book_resp, fav_resp>>
    /\ IF ~is_admin(u) \/ Get(accs, id) = {} \/ HasDependents(id) THEN
           \* access denied; or get_or_404 raises; or the flush that sets the
           \* NOT NULL accommodation_id of the referencing rows to NULL raises
           \* and the handler rolls back
           UNCHANGED accs
       ELSE
           accs' = accs \ Get(accs, id)

\* promote and demote without the own-account refusal
own_account_never(u, id) == FALSE

\* if user.id == current_user.id
own_account(u, id) == id = u

\* admin_promote_user (flag = TRUE) and admin_demote_user (flag = FALSE)
set_admin(u, id, flag) ==
    /\ u \in users
    /\ UNCHANGED <<users, accs, bookings, reviews, favorites, stripe_sessions,
                   pending, book_resp, fav_resp>>
    /\ IF ~is_admin(u) \/ id \notin users \/ own_account(u, id) THEN
           \* access denied; get_or_404 raises; "cannot modify your own status"
           UNCHANGED admins
       ELSE
           admins' = IF flag THEN admins \cup {id} ELSE admins \ {id}

admin_promote_user(u, id) == set_admin(u, id, TRUE)

admin_demote_user(u, id) == set_admin(u, id, FALSE)

\* ------------------------------------------------------------------- Next
Register == \E u \in UserIds : register(u)

\* the booking table holds at most MaxBookings rows
Book ==
    \E u \in UserIds, a \in AccIds, d \in Durations, ok \in BOOLEAN :
        /\ book(u, a, d, ok)
        /\ Cardinality(bookings') <= MaxBookings

CustomerPays == \E sid \in 1..MaxBookings : customer_pays(sid)

PaymentSuccess == \E sid \in SessionArgs, ok \in BOOLEAN : payment_success(sid, ok)

PaymentCancel == \E b \in 1..(MaxBookings + 1) : payment_cancel(b)

SubmitReview == \E u \in UserIds, a \in AccIds, v \in BOOLEAN : submit_review(u, a, v)

ToggleFavorite == \E u \in UserIds, a \in AccIds : toggle_favorite(u, a)

AdminNew ==
    \E u \in UserIds, p \in Prices, c \in 1..MaxCapacity, o \in 0..MaxCapacity :
        admin_new_accommodation(u, p, c, o)

AdminEdit ==
    \E u \in UserIds, id \in AccIds, p \in Prices, c \in 1..MaxCapacity, o \in 0..MaxCapacity :
        admin_edit_accommodation(u, id, p, c, o)

AdminDelete == \E u \in UserIds, id \in AccIds : admin_delete_accommodation(u, id)

AdminPromote == \E u \in UserIds, id \in UserIds : admin_promote_user(u, id)

AdminDemote == \E u \in UserIds, id \in UserIds : admin_demote_user(u, id)

Next ==
    \/ Register
    \/ Book
    \/ CustomerPays
    \/ PaymentSuccess
    \/ PaymentCancel
    \/ SubmitReview
    \/ ToggleFavorite
    \/ AdminNew
    \/ AdminEdit
    \/ AdminDelete
    \/ AdminPromote
    \/ AdminDemote

Spec == Init /\ [][Next]_vars

\* ------------------------------------------- interleaved submit_review
\* The handler reads (two SELECTs) and later writes (INSERT, COMMIT) with no
\* lock and no unique constraint on review(user_id, accommodation_id), so
\* under a threaded or multi-worker server other requests run between the
\* two.  pending counts the requests of a pair that have passed both guards
\* and not yet reached their insert.
submit_review_check(u, a) ==
    /\ u \in users
    /\ review_allowed(u, a)
    /\ pending[<<u, a>>] < MaxInflight
    /\ pending' = [pending EXCEPT ![<<u, a>>] = @ + 1]
    /\ UNCHANGED <<users, admins, accs, bookings, reviews, favorites,
                   stripe_sessions, book_resp, fav_resp>>

submit_review_commit(u, a, form_valid) ==
    /\ pending[<<u, a>>] > 0
    /\ pending' = [pending EXCEPT ![<<u, a>>] = @ - 1]
    /\ reviews' = IF form_valid THEN insert_review(u, a) ELSE reviews
    /\ UNCHANGED <<users, admins, accs, bookings, favorites, stripe_sessions,
                   book_resp, fav_resp>>

SubmitReviewCheck == \E u \in UserIds, a \in AccIds : submit_review_check(u, a)

SubmitReviewCommit ==
    \E u \in UserIds, a \in AccIds, v \in BOOLEAN : submit_review_commit(u, a, v)

NextConc ==
    \/ Next
    \/ SubmitReviewCheck
    \/ SubmitReviewCommit

SpecConc == Init /\ [][NextConc]_vars

\* ------------------------------------------------ the booking lifecycle
\* One listing that an admin created with current_occupancy 0 and that no
\* admin touches afterwards, two registered users, and only the handlers of
\* the booking lifecycle: book, the customer's payment at the provider,
\* payment_success and payment_cancel.  The booking table holds one row more
\* than in Spec, so that two bookings of the one listing can be open at once.
LifecycleBookings == MaxBookings + 1

InitLifecycle ==
    /\ users = UserIds
    /\ admins = {SEED_ADMIN}
    /\ accs \in {{[id |-> 1, price_per_month |-> p, capacity |-> c,
                   current_occupancy |-> 0, is_active |-> TRUE]} :
                     p \in Prices, c \in 1..MaxCapacity}
    /\ bookings = {}
    /\ reviews = [p \in Pairs |-> 0]
    /\ favorites = [p \in Pairs |-> 0]
    /\ stripe_sessions = {[id |-> ForeignSid, payment_status |-> "paid"]}
    /\ pending = [p \in Pairs |-> 0]
    /\ book_resp = BookResp("", "none")
    /\ fav_resp = [p \in Pairs |-> FavResp("", FALSE)]

LifecycleBook ==
    \E u \in UserIds, a \in AccIds, d \in Durations, ok \in BOOLEAN :
        /\ book(u, a, d, ok)
        /\ Cardinality(bookings') <= LifecycleBookings

LifecyclePays == \E sid \in 1..(LifecycleBookings + 1) : customer_pays(sid)

LifecycleSuccess ==
    \E sid \in 0..(LifecycleBookings + 1), ok \in BOOLEAN : payment_success(sid, ok)

LifecycleCancel == \E b \in 1..(LifecycleBookings + 1) : payment_cancel(b)

NextLifecycle ==
    \/ LifecycleBook
    \/ LifecyclePays
    \/ LifecycleSuccess
    \/ LifecycleCancel

SpecLifecycle == InitLifecycle /\ [][NextLifecycle]_vars

\* the booking lifecycle of a listing that an admin keeps editing
NextManaged ==
    \/ NextLifecycle
    \/ AdminEdit

SpecManaged == InitLifecycle /\ [][NextManaged]_vars

\* =================================================================== claims

\* C1: in every reachable state every accommodation has
\* current_occupancy <= capacity.
OccupancyWithinCapacity ==
    \A acc \in accs : acc.current_occupancy <= acc.capacity

\* C2: in every step a booking's status changes only from approved to paid or
\* from approved to cancelled; a paid or cancelled booking keeps its status.
StatusMonotonic ==
    [][\A b \in bookings : \A c \in bookings' :
          (b.id = c.id /\ b.status # c.status) =>
              (b.status = "approved" /\ c.status \in {"paid", "cancelled"})]_vars

\* C3: payment_success called again with the session id of a booking that an
\* earlier call already confirmed (its status is paid) leaves every
\* accommodation's current_occupancy unchanged.
ReplayKeepsOccupancy ==
    [][\A sid \in SessionArgs : \A ok \in BOOLEAN :
          (/\ payment_success(sid, ok)
           /\ \E b \in bookings : b.stripe_session_id = sid /\ b.status = "paid")
          => accs' = accs]_vars

\* the payment_success calls that must change nothing: no session id, a failed
\* provider read, a session that is unknown or not paid, or one no booking holds
NotConfirmed(sid, read_ok) ==
    \/ sid = NULL
    \/ ~read_ok
    \/ ~\E s \in stripe_sessions : s.id = sid /\ s.payment_status = "paid"
    \/ ~\E b \in bookings : b.stripe_session_id = sid

\* C4: a booking becomes paid only in a payment_success step that read the
\* provider's status of that booking's session and read 'paid'; a
\* payment_success call with no session id, a failed provider read, a session
\* that is not paid, or a session id matching no booking changes no booking
\* and no accommodation.
PaidOnlyByConfirmedRead ==
    [][/\ \A c \in bookings' :
            (c.status = "paid" /\ ~\E b \in bookings : b.id = c.id /\ b.status = "paid")
            => \E s \in stripe_sessions :
                  /\ s.id = c.stripe_session_id
                  /\ s.payment_status = "paid"
                  /\ payment_success(s.id, TRUE)
       /\ \A sid \in SessionArgs : \A ok \in BOOLEAN :
            (NotConfirmed(sid, ok) /\ payment_success(sid, ok))
            => UNCHANGED <<bookings, accs>>]_vars

PaidAfterConfirmedRead ==
    \E b \in bookings :
        /\ b.status = "paid"
        /\ \E s \in stripe_sessions : s.id = b.stripe_session_id /\ s.payment_status = "paid"
        /\ \E acc \in accs : acc.id = b.accommodation_id /\ acc.current_occupancy > 0

\* C5: a review row for (user, accommodation) is inserted only in a step
\* taken while a paid booking of the pair exists and no review of the pair
\* exists, and it is the pair's first row; a submit_review call made when
\* either condition fails leaves the reviews unchanged.
ReviewOnlyWhenEligible ==
    [][\A u \in UserIds : \A a \in AccIds :
          /\ reviews'[<<u, a>>] # reviews[<<u, a>>] =>
                /\ \E b \in bookings :
                      b.user_id = u /\ b.accommodation_id = a /\ b.status = "paid"
                /\ reviews[<<u, a>>] = 0
                /\ reviews'[<<u, a>>] = 1
          /\ \A v \in BOOLEAN :
                (/\ submit_review(u, a, v)
                 /\ \/ ~\E b \in bookings :
                          b.user_id = u /\ b.accommodation_id = a /\ b.status = "paid"
                    \/ reviews[<<u, a>>] > 0)
                => reviews' = reviews]_vars

ReviewInserted ==
    \E p \in Pairs :
        /\ reviews[p] = 1
        /\ \E b \in bookings :
              b.user_id = p[1] /\ b.accommodation_id = p[2] /\ b.status = "paid"

\* C6: in every reachable state there is at most one review per
\* (user, accommodation) pair, also when submit_review requests interleave.
OneReviewPerPair == \A p \in Pairs : reviews[p] <= 1

\* C7: every toggle_favorite call answers 'added' exactly when the pair is a
\* favourite afterwards and 'removed' exactly when it is not, and the call
\* that follows an earlier toggle_favorite of the same pair leaves the pair's
\* membership as it was before that earlier call.
ToggleTwiceRestores ==
    [][\A u \in UserIds : \A a \in AccIds :
          toggle_favorite(u, a) =>
              /\ (fav_resp'[<<u, a>>].status = "added") <=> (favorites'[<<u, a>>] > 0)
              /\ (fav_resp'[<<u, a>>].status = "removed") <=> (favorites'[<<u, a>>] = 0)
              /\ fav_resp[<<u, a>>].status # "" =>
                    ((favorites'[<<u, a>>] > 0) <=> fav_resp[<<u, a>>].was)]_vars

ToggledTwice ==
    \E p \in Pairs :
        /\ fav_resp[p] = FavResp("removed", TRUE)
        /\ favorites[p] = 0

\* book writes bookings, stripe_sessions (only together with bookings) and
\* book_resp: a step that changes neither bookings nor book_resp is, for book,
\* a stuttering step.  The book claims are evaluated on the other steps.
BookVisible == bookings' # bookings \/ book_resp' # book_resp

\* C8: a book call on an accommodation with current_occupancy >= capacity
\* answers "fully booked", calls no provider, and changes no table and no
\* provider session.
BookOnFullRejected ==
    [][BookVisible => \A u \in UserIds : \A a \in AccIds : \A d \in Durations : \A ok \in BOOLEAN :
          (/\ \E acc \in accs : acc.id = a /\ acc.current_occupancy >= acc.capacity
           /\ book(u, a, d, ok))
          => /\ UNCHANGED db
             /\ book_resp' = BookResp("fully_booked", "none")]_vars

BookedOnFull ==
    /\ book_resp = BookResp("fully_booked", "none")
    /\ \E acc \in accs : acc.current_occupancy >= acc.capacity

\* C9: a book call whose Session.create call fails leaves the bookings and
\* every accommodation as they were before the call.
BookRollsBackOnProviderFailure ==
    [][BookVisible => \A u \in UserIds : \A a \in AccIds : \A d \in Durations : \A ok \in BOOLEAN :
          (book_resp'.stripe = "error" /\ book(u, a, d, ok))
          => (bookings' = bookings /\ accs' = accs)]_vars

ProviderFailedDuringBook ==
    /\ book_resp = BookResp("payment_setup_failed", "error")
    /\ \E acc \in accs : acc.current_occupancy < acc.capacity

\* C10: a book call whose total (price_per_month * months) is below 0.50
\* persists no booking and calls no provider.
BookBelowMinimumRejected ==
    [][BookVisible => \A u \in UserIds : \A a \in AccIds : \A d \in Durations : \A ok \in BOOLEAN :
          (/\ \E acc \in accs :
                 /\ acc.id = a
                 /\ acc.price_per_month *
                        (IF d = "annual" THEN ANNUAL_MONTHS ELSE SEMESTER_MONTHS)
                    < MIN_CHARGE
           /\ book(u, a, d, ok))
          => /\ bookings' = bookings
             /\ stripe_sessions' = stripe_sessions
             /\ book_resp'.stripe = "none"]_vars

BookedBelowMinimum ==
    /\ book_resp = BookResp("below_minimum", "none")
    /\ \E acc \in accs :
          /\ acc.price_per_month * SEMESTER_MONTHS = 40
          /\ acc.current_occupancy < acc.capacity

\* C11: every booking that a book step inserts has a duration of semester or
\* annual, with months 5 for semester and 10 for annual, and a total_price of
\* the accommodation's price_per_month in that step times months, whatever
\* duration value was submitted.
BookingDurationMonthsPrice ==
    [][\A c \in bookings' :
          (~\E b \in bookings : b.id = c.id) =>
              /\ c.duration \in {"semester", "annual"}
              /\ c.months = (IF c.duration = "semester" THEN SEMESTER_MONTHS
                                                        ELSE ANNUAL_MONTHS)
              /\ \E acc \in accs :
                    /\ acc.id = c.accommodation_id
                    /\ c.total_price = acc.price_per_month * c.months]_vars

\* C12: in every reachable state an accommodation whose current_occupancy has
\* reached its capacity is inactive, whether a payment confirmation, an admin
\* creation or an admin edit brought the occupancy there.
FullImpliesInactive ==
    \A acc \in accs : acc.current_occupancy >= acc.capacity => ~acc.is_active

\* C13: a payment_success call for the session of an approved booking, with
\* the provider reporting paid, leaves the booking paid and the accommodation
\* with a current_occupancy one higher than before; is_active is false when
\* the new occupancy is >= capacity and is otherwise as it was.
ConfirmApprovedBooking ==
    [][\A b \in bookings : \A acc \in accs :
          (/\ b.status = "approved"
           /\ b.stripe_session_id # NULL
           /\ acc.id = b.accommodation_id
           /\ \E s \in stripe_sessions :
                 s.id = b.stripe_session_id /\ s.payment_status = "paid"
           /\ payment_success(b.stripe_session_id, TRUE))
          => /\ \E c \in bookings' : c.id = b.id /\ c.status = "paid"
             /\ \E after \in accs' :
                   /\ after.id = acc.id
                   /\ after.current_occupancy = acc.current_occupancy + 1
                   /\ after.is_active =
                          (IF after.current_occupancy >= acc.capacity
                           THEN FALSE ELSE acc.is_active)]_vars

ConfirmedToCapacity ==
    \E b \in bookings : \E acc \in accs :
        /\ b.status = "paid"
        /\ acc.id = b.accommodation_id
        /\ acc.capacity = 1
        /\ acc.current_occupancy = 1
        /\ ~acc.is_active

\* C14: payment_cancel on an approved booking sets its status to cancelled;
\* on a booking that is already paid or cancelled it changes nothing; in both
\* cases no accommodation's current_occupancy or is_active changes.
CancelOnlyApproved ==
    [][\A id \in 1..(MaxBookings + 1) :
          payment_cancel(id) =>
              /\ accs' = accs
              /\ \A b \in bookings :
                    b.id = id =>
                        IF b.status = "approved"
                        THEN bookings' = (bookings \ {b}) \cup
                                 {[b EXCEPT !.status = "cancelled"]}
                        ELSE bookings' = bookings]_vars

CancelledApproved ==
    \E b \in bookings : \E acc \in accs :
        /\ b.status = "cancelled"
        /\ acc.id = b.accommodation_id
        /\ acc.current_occupancy = 0
        /\ acc.is_active

\* the paid bookings of an accommodation
PaidBookings(acc) ==
    {b \in bookings : b.accommodation_id = acc.id /\ b.status = "paid"}

\* C15: for an accommodation created with current_occupancy 0 whose occupancy
\* no admin edits, in every reachable state current_occupancy equals the
\* number of its bookings whose status is paid.
OccupancyCountsPaidBookings ==
    \A acc \in accs : acc.current_occupancy = Cardinality(PaidBookings(acc))

\* C16: with only book, payment_success and payment_cancel acting on an
\* accommodation that had k free slots, at most k of the bookings created for
\* it while approved ever become paid.  The accommodation starts with
\* current_occupancy 0 and its capacity is never edited, so k is its capacity;
\* a booking is created only while the accommodation is not full, so more
\* paid bookings than capacity means more than k of them were open at once.
PaidWithinFreeSlots ==
    \A acc \in accs : Cardinality(PaidBookings(acc)) <= acc.capacity

\* C17: an admin-only operation (create, edit or delete an accommodation,
\* promote or demote a user) called by a user who is not an admin leaves
\* every accommodation and every user's admin flag unchanged.
AdminOnlyDenied ==
    [][\/ UNCHANGED <<accs, admins>>
       \/ \A u \in users \ admins :
             /\ \A p \in Prices : \A c \in 1..MaxCapacity : \A o \in 0..MaxCapacity :
                   /\ ~admin_new_accommodation(u, p, c, o)
                   /\ \A id \in AccIds : ~admin_edit_accommodation(u, id, p, c, o)
             /\ \A id \in AccIds : ~admin_delete_accommodation(u, id)
             /\ \A id \in UserIds :
                   ~admin_promote_user(u, id) /\ ~admin_demote_user(u, id)]_vars

NonAdminBesideListing ==
    /\ users \ admins # {}
    /\ \E acc \in accs : ~HasDependents(acc.id)

\* C18: with requests that run to completion one after another, every
\* reachable state has at least one user whose is_admin is true.
AdminRemains == \E u \in users : u \in admins

SeedAdminDemoted ==
    /\ SEED_ADMIN \in users
    /\ SEED_ADMIN \notin admins
    /\ admins # {}

\* C19: no step changes an accommodation's is_active from false to true, an
\* admin edit that raises capacity or lowers current_occupancy included.
InactiveStaysInactive ==
    [][\A acc \in accs : \A after \in accs' :
          (after.id = acc.id /\ ~acc.is_active) => ~after.is_active]_vars

InactiveWithFreeSlot ==
    \E acc \in accs : ~acc.is_active /\ acc.current_occupancy < acc.capacity

====
